---- MODULE Spec2Model ----
(***************************************************************************)
(* Datwatch: a watchdog event handler (LRMetaDataHandler) running on the   *)
(* observer thread records activity on .dat files; the main thread polls   *)
(* check_and_process_files, which converts files that have been quiet for  *)
(* longer than inactivity_period and appends them to the dated LR.txt.     *)
(* The two threads share file_timestamps and processed_mtimes without a    *)
(* lock, so every statement that touches them is a step of its own.        *)
(***************************************************************************)
EXTENDS Integers, Sequences, FiniteSets, TLC

\* ------------------------------------------------------------------ bounds
MaxTime == 5        \* the wall clock runs over 0..MaxTime
MaxMtime == 3       \* modification times run over 1..MaxMtime
DayLen == 3         \* clock ticks per calendar day
inactivity_period == 1
MaxLines == 3       \* lines of a source file whose conversion is followed line by line

\* ------------------------------------------------------------------ paths
\* A path is <<stem, extension>>.
DatFiles == {<<"a", "dat">>, <<"b", "dat">>}

\* The .dat file of the runs with one watched file.
OneFile == {<<"a", "dat">>}

\* The events the watch subsystem can deliver, (src_path, is_directory), when
\* the .dat files of the watched directory are F.
EventsFor(F) ==
    [src_path : F, is_directory : {FALSE}]
      \cup {[src_path |-> <<"n", "txt">>, is_directory |-> FALSE],
            [src_path |-> <<"d", "dat">>, is_directory |-> TRUE]}

NoPath == <<"", "">>
NoEvent == [src_path |-> NoPath, is_directory |-> FALSE]

\* str.endswith('.dat')
EndsWithDat(path) == path[2] = "dat"

Mtimes == 1..MaxMtime

\* The calendar day (strftime "%Y_%m_%d") of a clock value.
DateStr(t) == t \div DayLen

\* A line of an output file: its text, and for a converted line the source
\* file and the revision (modification time) of the content it was read from.
HEADER1 == [text |-> "EPIC LR Log File\n\n", path |-> NoPath, rev |-> 0]
HEADER2 == [text |-> "Date,LR\n", path |-> NoPath, rev |-> 0]
ConvertedLines(p, rev) == <<[text |-> "formatted_time,intensity\n", path |-> p, rev |-> rev]>>

VARIABLES
    now,               \* time.time()
    disk,              \* the .dat files on disk: path -> mtime (domain = existing files)
    pending,           \* paths with a create/modify notification not yet delivered
    file_timestamps,   \* ordered dict: sequence of [path, ts]
    processed_mtimes,  \* dict: path -> mtime (domain = keys)
    pc,                \* main thread: "sleep","stat","convert","commit","pop","crashed"
    files_to_process,  \* the part of files_to_process the for loop has not visited yet
    latest_mtime,      \* local of check_and_process_files
    hpc,               \* observer thread: "idle","compare","write","raised"
    hev,               \* the event being handled
    hmtime,            \* local mtime of _should_track
    out,               \* output files: day -> sequence of lines (domain = existing files)
    log,               \* the kind of the last record the poll loop logged
    src_lines,         \* f.readlines() of a source file, each line as its tab-separated fields
    conv               \* what convert_lr_to_epic made of src_lines

vars == <<now, disk, pending, file_timestamps, processed_mtimes, pc,
          files_to_process, latest_mtime, hpc, hev, hmtime, out, log, src_lines, conv>>

lineVars == <<src_lines, conv>>

fsVars == <<disk, pending>>
pollVars == <<pc, files_to_process, latest_mtime>>
handlerVars == <<hpc, hev, hmtime>>

\* ------------------------------------------------------- ordered dict ops
Keys(d) == {d[i].path : i \in 1..Len(d)}
Has(d, p) == p \in Keys(d)
Get(d, p) == (CHOOSE i \in 1..Len(d) : d[i].path = p)
TsOf(d, p) == d[Get(d, p)].ts
KeySeq(d) == [i \in 1..Len(d) |-> d[i].path]

\* (mutation of PutLast: the store replaces the whole dict)
PutLast_Replaces(d, p, t) == <<[path |-> p, ts |-> t]>>

\* d[p] = t : an existing key keeps its position, a new key goes last.
PutLast(d, p, t) ==
    IF Has(d, p) THEN [d EXCEPT ![Get(d, p)].ts = t]
    ELSE Append(d, [path |-> p, ts |-> t])

\* d.pop(p, None)
PopNone(d, p) == SelectSeq(d, LAMBDA e : e.path # p)

\* (mutation of GetOrZero: a path without a marker counts as processed at 1)
GetOrZero_DefaultOne(pm, p) == IF p \in DOMAIN pm THEN pm[p] ELSE 1

\* processed_mtimes.get(path, 0.0)
GetOrZero(pm, p) == IF p \in DOMAIN pm THEN pm[p] ELSE 0

\* pm[p] = m
SetItem(pm, p, m) == [q \in DOMAIN pm \cup {p} |-> IF q = p THEN m ELSE pm[q]]

\* del d[p] for the disk
Remove(f, p) == [q \in DOMAIN f \ {p} |-> f[q]]

EmptyMap == [q \in {} |-> 0]

\* No conversion of src_lines has run.
NotConverted == [state |-> "none", appended |-> <<>>, warnings |-> 0]

\* ------------------------------------------------------------ environment
Init ==
    /\ now = 0
    /\ disk = EmptyMap
    /\ pending = {}
    /\ file_timestamps = <<>>
    /\ processed_mtimes = EmptyMap
    /\ pc = "sleep"
    /\ files_to_process = <<>>
    /\ latest_mtime = 0
    /\ hpc = "idle"
    /\ hev = NoEvent
    /\ hmtime = 0
    /\ out = EmptyMap
    /\ log = "none"
    /\ src_lines = <<>>
    /\ conv = NotConverted

\* The wall clock advances.
Tick ==
    /\ now < MaxTime
    /\ now' = now + 1
    /\ UNCHANGED <<fsVars, file_timestamps, processed_mtimes, pollVars, handlerVars, out, log>>
    /\ UNCHANGED lineVars

\* A .dat file appears (written by the instrument, or copied in with the
\* modification time it had elsewhere); the watch subsystem owes an event.
CreateFile(p, m) ==
    /\ p \notin DOMAIN disk
    /\ disk' = SetItem(disk, p, m)
    /\ pending' = pending \cup {p}
    /\ UNCHANGED <<now, file_timestamps, processed_mtimes, pollVars, handlerVars, out, log>>
    /\ UNCHANGED lineVars

\* An existing .dat file is written: its modification time advances.
WriteFile(p, m) ==
    /\ p \in DOMAIN disk
    /\ m > disk[p]
    /\ disk' = SetItem(disk, p, m)
    /\ pending' = pending \cup {p}
    /\ UNCHANGED <<now, file_timestamps, processed_mtimes, pollVars, handlerVars, out, log>>
    /\ UNCHANGED lineVars

\* A .dat file is deleted (the handler has no on_deleted).
DeleteFile(p) ==
    /\ p \in DOMAIN disk
    /\ disk' = Remove(disk, p)
    /\ UNCHANGED <<now, pending, file_timestamps, processed_mtimes, pollVars, handlerVars,
                   out, log>>
    /\ UNCHANGED lineVars

\* ------------------------------------------------- observer thread: events
\* os.path.getmtime(path) finds the path: a .dat file that is on disk, or one
\* of the other objects of the watched directory (a sub-directory, a file
\* that is no .dat), which are always there.
Exists(dsk, path) == path \in DOMAIN dsk \/ path \notin DatFiles

\* os.path.getmtime(path) of a path that exists.
getmtime(dsk, path) == IF path \in DOMAIN dsk THEN dsk[path] ELSE MaxMtime

\* (mutation of ShouldTrack: an mtime equal to the marker passes)
ShouldTrack_NotStrict(mtime, last) == mtime >= last

\* _should_track: mtime > last
ShouldTrack(mtime, last) == mtime > last

\* (mutation of IgnoredAsDirectory: directory events are not filtered out)
IgnoredAsDirectory_Never(event) == FALSE

\* on_created / on_modified: the guard in front of the .dat test
IgnoredAsDirectory(event) == event.is_directory

\* (mutation of AfterFileNotFound: the FileNotFoundError leaves the handler)
AfterFileNotFound_Raises == "raised"

\* except FileNotFoundError: return False -- the handler returns.
AfterFileNotFound == "idle"

\* What an event handler does up to and including the os.path.getmtime of
\* _should_track: a directory event returns, a path that is no .dat returns,
\* FileNotFoundError makes _should_track return False, any other OSError
\* leaves the handler as an exception (the observer thread is over), and
\* otherwise the handler holds the file's mtime.
HandlerEntry(event) ==
    /\ hpc = "idle"
    /\ pending' = pending \ {event.src_path}
    /\ IF IgnoredAsDirectory(event) \/ ~EndsWithDat(event.src_path)
         THEN UNCHANGED handlerVars
         ELSE IF ~Exists(disk, event.src_path)
         THEN hpc' = AfterFileNotFound /\ UNCHANGED <<hev, hmtime>>
         ELSE \/ hpc' = "compare" /\ hev' = event /\ hmtime' = getmtime(disk, event.src_path)
              \/ hpc' = "raised" /\ hev' = event /\ hmtime' = 0
    /\ UNCHANGED <<now, disk, file_timestamps, processed_mtimes, pollVars, out, log>>
    /\ UNCHANGED lineVars

\* The observer thread calls on_created(event).  A delivery settles the event
\* the path is owed; deliveries may also be duplicates that settle nothing.
on_created(event) == HandlerEntry(event)

\* The observer thread calls on_modified(event): the same body as on_created
\* (which only logs one line more).
on_modified(event) == HandlerEntry(event)

\* _should_track: last = self.processed_mtimes.get(path, 0.0); return mtime > last
ShouldTrackCompare ==
    /\ hpc = "compare"
    /\ IF ShouldTrack(hmtime, GetOrZero(processed_mtimes, hev.src_path))
         THEN hpc' = "write" /\ hev' = hev
         ELSE hpc' = "idle" /\ hev' = NoEvent
    /\ hmtime' = 0
    /\ UNCHANGED <<now, fsVars, file_timestamps, processed_mtimes, pollVars, out, log>>
    /\ UNCHANGED lineVars

\* self.file_timestamps[event.src_path] = time.time()
HandlerWrite ==
    /\ hpc = "write"
    /\ file_timestamps' = PutLast(file_timestamps, hev.src_path, now)
    /\ hpc' = "idle"
    /\ hev' = NoEvent
    /\ UNCHANGED <<now, fsVars, processed_mtimes, pollVars, hmtime, out, log>>
    /\ UNCHANGED lineVars

\* ------------------------------------------ main thread: the poll loop
\* The path the dispatch loop is at.
file_path == Head(files_to_process)

\* (mutation of Inactive: an entry exactly inactivity_period old is ready)
Inactive_NotStrict(cur, last_modified) == cur - last_modified >= inactivity_period

\* current_time - last_modified > self.inactivity_period
Inactive(cur, last_modified) == cur - last_modified > inactivity_period

\* (mutation of ScanReady: the ready paths come out last-inserted first)
ScanReady_Reversed(items, cur) ==
    LET r == KeySeq(SelectSeq(items, LAMBDA e : Inactive(cur, e.ts)))
    IN  [i \in 1..Len(r) |-> r[Len(r) + 1 - i]]

\* The scan loop: the paths of the snapshot whose entry has been quiet long
\* enough, in the snapshot's (insertion) order.
ScanReady(items, cur) ==
    KeySeq(SelectSeq(items, LAMBDA e : Inactive(cur, e.ts)))

\* Where the for loop goes after an iteration: the next path, or the return
\* to the caller's time.sleep(5).
LoopTarget(rest) == IF rest = <<>> THEN "sleep" ELSE "stat"

\* (mutation of AfterException: the exception leaves check_and_process_files)
AfterException_Propagates(rest) == "crashed"

\* except Exception as e: logging.error(...) -- the loop goes on.
AfterException(rest) == LoopTarget(rest)

\* (mutation of DropMissing: the entry of a vanished file is kept)
DropMissing_Keeps(ft, p) == ft

\* except FileNotFoundError: self.file_timestamps.pop(file_path, None); continue
DropMissing(ft, p) == PopNone(ft, p)

\* (mutation of HeaderLines: the header is written by every conversion)
HeaderLines_Always(file_exists) == <<HEADER1, HEADER2>>

\* if not file_exists: the two header writes.
HeaderLines(file_exists) == IF file_exists THEN <<>> ELSE <<HEADER1, HEADER2>>

\* open(output_file_path, 'a'): writes go after the existing content.
AppendTo(old, lines) == old \o lines

\* convert_lr_to_epic: the source is read at its current revision and its
\* converted lines are appended to the LR.txt of today's date; any exception
\* (source gone or unreadable, destination unwritable) is caught and logged
\* inside, and nothing is written.  Returns the new output files and whether
\* the conversion went through.
convert_lr_to_epic(p, dsk, o, t, ioerr) ==
    IF p \notin DOMAIN dsk \/ ioerr
      THEN [out |-> o, ok |-> FALSE]
      ELSE LET d == DateStr(t)
               file_exists == d \in DOMAIN o
               old == IF file_exists THEN o[d] ELSE <<>>
               converted_lines == ConvertedLines(p, dsk[p])
           IN  [out |-> SetItem(o, d, AppendTo(old, HeaderLines(file_exists) \o converted_lines)),
                ok |-> TRUE]

\* (mutation of CommitMarker: the marker only ever moves forward)
CommitMarker_KeepsMax(pm, p, m) ==
    SetItem(pm, p, IF p \in DOMAIN pm /\ pm[p] > m THEN pm[p] ELSE m)

\* self.processed_mtimes[file_path] = latest_mtime, after convert_lr_to_epic
\* returned (it returns None whether or not it failed).
CommitMarker(pm, p, m) == SetItem(pm, p, m)

\* check_and_process_files up to the end of the scan loop:
\* current_time = time.time(), then the loop over list(self.file_timestamps.items()).
PollScan ==
    /\ pc = "sleep"
    /\ LET current_time == now
       IN  files_to_process' = ScanReady(file_timestamps, current_time)
    /\ pc' = LoopTarget(files_to_process')
    /\ log' = IF file_timestamps = <<>> THEN log ELSE "checking"
    /\ UNCHANGED <<now, fsVars, file_timestamps, processed_mtimes, latest_mtime,
                   handlerVars, out>>
    /\ UNCHANGED lineVars

\* latest_mtime = os.path.getmtime(file_path), with its two except clauses.
PollStat ==
    /\ pc = "stat"
    /\ IF file_path \notin DOMAIN disk
         THEN /\ log' = "disappeared"
              /\ file_timestamps' = DropMissing(file_timestamps, file_path)
              /\ files_to_process' = Tail(files_to_process)
              /\ pc' = LoopTarget(files_to_process')
              /\ latest_mtime' = 0
         ELSE \/ /\ log' = "processing"
                 /\ latest_mtime' = disk[file_path]
                 /\ pc' = "convert"
                 /\ UNCHANGED <<file_timestamps, files_to_process>>
              \/ /\ log' = "error"
                 /\ files_to_process' = Tail(files_to_process)
                 /\ pc' = AfterException(files_to_process')
                 /\ latest_mtime' = 0
                 /\ UNCHANGED file_timestamps
    /\ UNCHANGED <<now, fsVars, processed_mtimes, handlerVars, out>>
    /\ UNCHANGED lineVars

\* convert_lr_to_epic(file_path, self.output_dir)
PollConvert ==
    /\ pc = "convert"
    /\ \E ioerr \in BOOLEAN :
         LET r == convert_lr_to_epic(file_path, disk, out, now, ioerr)
         IN  /\ out' = r.out
             /\ log' = IF r.ok THEN "appended" ELSE "failed"
    /\ pc' = "commit"
    /\ UNCHANGED <<now, fsVars, file_timestamps, processed_mtimes, files_to_process,
                   latest_mtime, handlerVars>>
    /\ UNCHANGED lineVars

\* self.processed_mtimes[file_path] = latest_mtime
PollCommit ==
    /\ pc = "commit"
    /\ processed_mtimes' = CommitMarker(processed_mtimes, file_path, latest_mtime)
    /\ pc' = "pop"
    /\ UNCHANGED <<now, fsVars, file_timestamps, files_to_process, latest_mtime,
                   handlerVars, out, log>>
    /\ UNCHANGED lineVars

\* self.file_timestamps.pop(file_path, None), and on to the next path.
PollPop ==
    /\ pc = "pop"
    /\ file_timestamps' = PopNone(file_timestamps, file_path)
    /\ files_to_process' = Tail(files_to_process)
    /\ pc' = LoopTarget(files_to_process')
    /\ latest_mtime' = 0
    /\ UNCHANGED <<now, fsVars, processed_mtimes, handlerVars, out, log>>
    /\ UNCHANGED lineVars

\* One .dat file in the watched directory.
Next ==
    \/ Tick
    \/ \E p \in OneFile, m \in Mtimes : CreateFile(p, m)
    \/ \E p \in OneFile, m \in Mtimes : WriteFile(p, m)
    \/ \E p \in OneFile : DeleteFile(p)
    \/ \E event \in EventsFor(OneFile) : on_created(event)
    \/ \E event \in EventsFor(OneFile) : on_modified(event)
    \/ ShouldTrackCompare
    \/ HandlerWrite
    \/ PollScan
    \/ PollStat
    \/ PollConvert
    \/ PollCommit
    \/ PollPop

Spec == Init /\ [][Next]_vars

\* One pass of the main loop's body, step by step: handler.check_and_process_files()
\* after each time.sleep(5).
PollStep == PollScan \/ PollStat \/ PollConvert \/ PollCommit \/ PollPop

\* The main thread keeps running (while True) and the wall clock keeps
\* advancing; nothing is assumed of the instrument, the watch subsystem or
\* the outcome of a system call.
SpecFair == Spec /\ WF_vars(Tick) /\ WF_vars(PollStep)

\* Two .dat files in the watched directory, each written once (a file that is
\* deleted and comes back carries the same modification time).
NextPair ==
    \/ Tick
    \/ \E p \in DatFiles : CreateFile(p, MaxMtime)
    \/ \E p \in DatFiles : DeleteFile(p)
    \/ \E event \in EventsFor(DatFiles) : on_created(event)
    \/ \E event \in EventsFor(DatFiles) : on_modified(event)
    \/ ShouldTrackCompare
    \/ HandlerWrite
    \/ PollScan
    \/ PollStat
    \/ PollConvert
    \/ PollCommit
    \/ PollPop

SpecPair == Init /\ [][NextPair]_vars

\* ------------------------------------- convert_lr_to_epic, line by line
\* The source lines the conversion is followed on: a line is the sequence of
\* its tab-separated fields.
SourceLines ==
    { <<"0.0", "5">>, <<"1.5", "7">>,      \* offset and intensity
      <<"bad_line">>,                        \* one field
      <<"1", "2", "3">>,                     \* three fields
      <<"1.0", "">>,                         \* the intensity is missing
      <<"abc", "5">>,                        \* the offset is no number
      <<"nan", "3">>,                        \* float() gives NaN
      <<"1e400", "3">> }                     \* float() gives infinity

RECURSIVE SeqsUpTo(_, _)
\* The sequences over S of length at most n.
SeqsUpTo(S, n) ==
    IF n = 0 THEN {<<>>}
    ELSE LET shorter == SeqsUpTo(S, n - 1)
         IN  shorter \cup {Append(q, x) : q \in {r \in shorter : Len(r) = n - 1}, x \in S}

RECURSIVE StripFields(_)
\* line.strip().split("\t"): the white space stripped at both ends takes the
\* empty fields at both ends with it; an empty line splits into one empty field.
StripFields(fields) ==
    IF fields = <<>> THEN <<"">>
    ELSE IF Head(fields) = "" THEN StripFields(Tail(fields))
    ELSE IF fields[Len(fields)] = "" THEN StripFields(SubSeq(fields, 1, Len(fields) - 1))
    ELSE fields

\* float(parts[0]): the kind of the value, or the ValueError it raises.
FloatOf(text) ==
    CASE text \in {"0.0", "1.5", "1.0", "1"} -> "finite"
      [] text = "nan" -> "nan"
      [] text = "1e400" -> "inf"
      [] OTHER -> "ValueError"

\* base_time + timedelta(seconds=time_offset): what it raises, if anything.
TimedeltaOf(value) ==
    CASE value = "finite" -> "none"
      [] value = "nan" -> "ValueError"
      [] value = "inf" -> "OverflowError"

\* except ValueError: only a ValueError is caught inside the loop.
CaughtPerLine(raised) == raised = "ValueError"

\* One iteration of the loop over lines: "converted", "skipped" (continue,
\* nothing logged), "warned" (skipped with logging.warning) or "abort" (the
\* exception leaves the loop for the except Exception of the function).
ParseLine(line) ==
    LET parts == StripFields(line)
    IN  IF Len(parts) # 2 THEN "skipped"
        ELSE LET value == FloatOf(parts[1])
                 raised == IF value = "ValueError" THEN "ValueError" ELSE TimedeltaOf(value)
             IN  IF raised = "none" THEN "converted"
                 ELSE IF CaughtPerLine(raised) THEN "warned"
                 ELSE "abort"

RECURSIVE ConvertLines(_)
\* The loop over lines and the write that follows it: the converted lines
\* that are appended, and the warnings that are logged; an exception that
\* leaves the loop is logged by the function and nothing is appended.
ConvertLines(lines) ==
    IF lines = <<>> THEN [state |-> "appended", appended |-> <<>>, warnings |-> 0]
    ELSE LET r == ParseLine(Head(lines))
             rest == ConvertLines(Tail(lines))
         IN  IF r = "abort" \/ rest.state = "failed"
               THEN [state |-> "failed", appended |-> <<>>,
                     warnings |-> IF r = "abort" THEN 0
                                  ELSE rest.warnings + (IF r = "warned" THEN 1 ELSE 0)]
               ELSE [state |-> "appended",
                     appended |-> IF r = "converted" THEN <<Head(lines)>> \o rest.appended
                                  ELSE rest.appended,
                     warnings |-> rest.warnings + (IF r = "warned" THEN 1 ELSE 0)]

\* A source file of at most MaxLines lines is there to be converted.
InitLines ==
    /\ now = 0
    /\ disk = EmptyMap
    /\ pending = {}
    /\ file_timestamps = <<>>
    /\ processed_mtimes = EmptyMap
    /\ pc = "sleep"
    /\ files_to_process = <<>>
    /\ latest_mtime = 0
    /\ hpc = "idle"
    /\ hev = NoEvent
    /\ hmtime = 0
    /\ out = EmptyMap
    /\ log = "none"
    /\ src_lines \in SeqsUpTo(SourceLines, MaxLines)
    /\ conv = NotConverted

\* convert_lr_to_epic runs on the source file.
ConvertFile ==
    /\ conv.state = "none"
    /\ conv' = ConvertLines(src_lines)
    /\ UNCHANGED <<now, fsVars, file_timestamps, processed_mtimes, pollVars, handlerVars,
                   out, log, src_lines>>

NextLines == ConvertFile

SpecLines == InitLines /\ [][NextLines]_vars

\* ------------------------------------------------------------ properties
Range(q) == {q[i] : i \in 1..Len(q)}

\* The path of the event the handler is at.
hpath == hev.src_path

\* C1 (idempotence): an event delivered for a path whose marker equals the
\* file's current mtime T makes _should_track compare T with the marker, and
\* a comparison of an mtime equal to the marker returns False: the handler
\* returns without touching file_timestamps.
C1_Idempotent ==
    /\ [][\A p \in DatFiles :
            (/\ hpc = "idle" /\ hpc' = "compare" /\ hev'.src_path = p
             /\ p \in DOMAIN processed_mtimes /\ p \in DOMAIN disk
             /\ processed_mtimes[p] = disk[p])
            => (hmtime' = processed_mtimes'[p] /\ file_timestamps' = file_timestamps)]_vars
    /\ [][(/\ hpc = "compare" /\ hpc' # "compare"
           /\ hpath \in DOMAIN processed_mtimes
           /\ processed_mtimes[hpath] = hmtime)
          => (hpc' = "idle" /\ file_timestamps' = file_timestamps)]_vars

\* The handler holds the mtime T of a file already processed at T.
C1_Witness ==
    /\ hpc = "compare"
    /\ hpath \in DOMAIN processed_mtimes /\ hpath \in DOMAIN disk
    /\ processed_mtimes[hpath] = hmtime /\ disk[hpath] = hmtime
    /\ ~Has(file_timestamps, hpath)
    /\ \E d \in DOMAIN out : ConvertedLines(hpath, hmtime)[1] \in Range(out[d])

IsData(line) == line.path # NoPath

\* C3 (at most one processing per modification): no revision of a file is
\* appended twice, in the same output file or in two of them.
C3_NoDoubleAppend ==
    /\ \A d \in DOMAIN out : \A i, j \in 1..Len(out[d]) :
         (i # j /\ IsData(out[d][i])) => out[d][i] # out[d][j]
    /\ \A d, e \in DOMAIN out : \A i \in 1..Len(out[d]), j \in 1..Len(out[e]) :
         (d # e /\ IsData(out[d][i])) => out[d][i] # out[e][j]

\* The revision of p that is on disk has been appended to some output file.
Appended(p) ==
    \E d \in DOMAIN out : ConvertedLines(p, disk[p])[1] \in Range(out[d])

\* C4 (no missed update): when both threads are at rest and every event owed
\* has been delivered, a file whose mtime is beyond its marker and whose
\* content has not been converted is tracked (so that a later cycle
\* processes it): its event has not been lost.
C4_NoMissedUpdate ==
    \A p \in DatFiles :
      (/\ pc = "sleep" /\ hpc = "idle"
       /\ p \notin pending
       /\ p \in DOMAIN disk
       /\ disk[p] > GetOrZero(processed_mtimes, p)
       /\ ~Appended(p))
      => Has(file_timestamps, p)

\* C5 (missing-file safety): the dispatch of a path whose file is gone
\* removes the path from file_timestamps, logs the warning, goes on with the
\* loop without converting, and leaves processed_mtimes and the output alone.
C5_MissingFileDropped ==
    [][(/\ pc = "stat"
        /\ file_path \notin DOMAIN disk
        /\ files_to_process' # files_to_process)
       => (/\ ~Has(file_timestamps', file_path)
           /\ \A q \in Keys(file_timestamps) \ {file_path} : Has(file_timestamps', q)
           /\ processed_mtimes' = processed_mtimes
           /\ out' = out
           /\ log' = "disappeared"
           /\ files_to_process' = Tail(files_to_process)
           /\ pc' = IF files_to_process' = <<>> THEN "sleep" ELSE "stat")]_vars

\* A never-processed path has just been dropped as missing.
C5_Witness ==
    /\ log = "disappeared"
    /\ pc = "sleep"
    /\ file_timestamps = <<>>
    /\ processed_mtimes = EmptyMap
    /\ out = EmptyMap

\* C6 (marker only after success): while the last record of the poll loop is
\* the failure of a conversion, processed_mtimes does not change.
C6_MarkerOnlyOnSuccess ==
    [][log = "failed" => processed_mtimes' = processed_mtimes]_vars

\* C7 (ActivityRecord invariant): a tracked path whose file is on disk has no
\* marker, or a marker strictly below the file's mtime.
C7_TrackedIsNewer ==
    \A p \in Keys(file_timestamps) :
      (p \in DOMAIN disk /\ p \in DOMAIN processed_mtimes)
        => disk[p] > processed_mtimes[p]

\* C8 (ordering under concurrency): a path is dispatched only if its entry has
\* not been reset since the scan, that is, the entry is still older than
\* inactivity_period when os.path.getmtime hands the path to the conversion.
C8_ResetWaitsForNextCycle ==
    [][(pc = "stat" /\ pc' = "convert" /\ Has(file_timestamps, file_path))
       => now - TsOf(file_timestamps, file_path) > inactivity_period]_vars

\* C9 (failure isolation): a failure while handling one Ready path (missing
\* file, stat error, failed conversion) moves the loop on to the next path of
\* the cycle; the loop visits the Ready paths one by one, returns only when
\* none is left, and no exception leaves check_and_process_files.
C9_FailureIsolated ==
    /\ [](pc # "crashed")
    /\ [](pc = "sleep" => files_to_process = <<>>)
    /\ [](pc # "sleep" => files_to_process # <<>>)
    /\ [][(pc = "stat" /\ log' \in {"disappeared", "error"} /\ log' # log)
          => (/\ files_to_process' = Tail(files_to_process)
              /\ pc' = IF files_to_process' = <<>> THEN "sleep" ELSE "stat")]_vars
    /\ [][(pc = "convert" /\ log' = "failed")
          => (files_to_process' = files_to_process /\ pc' = "commit")]_vars

\* After the stat of the first Ready path failed, the loop is at the second.
C9_Witness ==
    /\ log = "error"
    /\ pc = "stat"
    /\ Len(files_to_process) = 1
    /\ Cardinality(Keys(file_timestamps)) = 2

\* C10 (header once): every output file starts with the two header lines,
\* holds no header line after them, and only ever grows at its end.
C10_HeaderOnce ==
    /\ [](\A d \in DOMAIN out :
            /\ Len(out[d]) >= 3
            /\ out[d][1] = HEADER1
            /\ out[d][2] = HEADER2
            /\ \A i \in 3..Len(out[d]) : IsData(out[d][i]))
    /\ [][\A d \in DOMAIN out :
            /\ d \in DOMAIN out'
            /\ Len(out'[d]) >= Len(out[d])
            /\ SubSeq(out'[d], 1, Len(out[d])) = out[d]]_vars

\* Two conversions have appended to the same dated output file.
C10_Witness ==
    \E d \in DOMAIN out :
      /\ Len(out[d]) >= 4
      /\ out[d][3].path # out[d][4].path

\* A line is well formed when it has exactly two non-empty fields and its
\* offset is a finite number.
WellFormed(line) ==
    /\ Len(line) = 2
    /\ line[1] \in {"0.0", "1.5", "1.0", "1"}
    /\ line[2] # ""

WellFormedLines(lines) == SelectSeq(lines, WellFormed)

\* C11 (malformed-line handling): whatever the lines of the source, the
\* conversion goes through and appends exactly the well-formed lines.
C11_BadLinesSkipped ==
    conv.state # "none"
      => (conv.state = "appended" /\ conv.appended = WellFormedLines(src_lines))

\* C12 (event filter contract): _should_track returns True exactly when the
\* file could be stat-ed and the mtime it read is strictly greater than the
\* path's marker (time zero without a marker); for a vanished file it returns
\* False; and it changes neither file_timestamps nor processed_mtimes.
C12_ShouldTrackContract ==
    /\ [][(hpc = "compare" /\ hpc' # "compare")
          => (/\ hpc' \in {"write", "idle"}
              /\ (hpc' = "write")
                   <=> (hmtime > (IF hpath \in DOMAIN processed_mtimes
                                    THEN processed_mtimes[hpath] ELSE 0))
              /\ file_timestamps' = file_timestamps
              /\ processed_mtimes' = processed_mtimes)]_vars
    /\ [][(hpc = "idle" /\ hpc' # "idle")
          => (/\ hpc' \in {"compare", "raised"}
              /\ hev'.src_path \in DOMAIN disk
              /\ (hpc' = "compare" => hmtime' = disk[hev'.src_path])
              /\ file_timestamps' = file_timestamps
              /\ processed_mtimes' = processed_mtimes)]_vars
    /\ [][hpc' = "write" => hpc \in {"compare", "write"}]_vars

\* _should_track has returned True for a file written after it was processed.
C12_Witness ==
    /\ hpc = "write"
    /\ hpath \in DOMAIN processed_mtimes /\ hpath \in DOMAIN disk
    /\ disk[hpath] > processed_mtimes[hpath]
    /\ log = "appended"

\* C13 (a promoted path leaves the record): the step that ends the dispatch
\* of a Ready path, whatever its outcome, leaves the path out of
\* file_timestamps.
C13_DispatchedLeavesRecord ==
    [][(pc # "sleep" /\ files_to_process' # files_to_process)
       => ~Has(file_timestamps', file_path)]_vars

\* C14 as stated (vanished file at both stages): an event delivered for a
\* vanished file, and the dispatch of a vanished file, both leave the path
\* without an entry in file_timestamps, and neither thread ends on an error.
C14_VanishedLeavesNoEntry ==
    /\ [][\A p \in DatFiles :
            (p \in pending /\ p \notin pending' /\ p \notin DOMAIN disk)
              => (~Has(file_timestamps', p) /\ hpc' = "idle")]_vars
    /\ [][(pc = "stat" /\ file_path \notin DOMAIN disk
             /\ files_to_process' # files_to_process)
          => (~Has(file_timestamps', file_path) /\ pc' \in {"stat", "sleep"})]_vars

\* C14 as amended: the event filter only ignores the event of a vanished file
\* (both dicts stay as they are, so an entry the path already has is kept
\* until the dispatcher finds the file missing); the dispatcher removes the
\* entry; neither thread ends on an error.
C14_VanishedHandled ==
    /\ [][\A p \in DatFiles :
            (p \in pending /\ p \notin pending' /\ p \notin DOMAIN disk)
              => (/\ file_timestamps' = file_timestamps
                  /\ processed_mtimes' = processed_mtimes
                  /\ hpc' = "idle")]_vars
    /\ [][(pc = "stat" /\ file_path \notin DOMAIN disk
             /\ files_to_process' # files_to_process)
          => (~Has(file_timestamps', file_path) /\ pc' \in {"stat", "sleep"})]_vars

\* The event owed to a tracked file has been delivered after the file
\* vanished: the handler is back at rest and the entry is still there.
C14_Witness ==
    \E p \in DatFiles :
      /\ Has(file_timestamps, p)
      /\ p \notin DOMAIN disk
      /\ p \notin pending
      /\ hpc = "idle"
      /\ pc = "sleep"
      /\ p \in DOMAIN processed_mtimes

\* C15 (the poll loop is the sole consumer): a step outside
\* check_and_process_files changes neither processed_mtimes nor the output
\* and removes no entry of file_timestamps; when it changes file_timestamps
\* it is the handler's store, which sets the timestamp of the event's path to
\* the current time and leaves every other entry as it is.  Entries are
\* removed, markers set and files converted only at the poll loop's steps.
C15_PollLoopSoleConsumer ==
    /\ [][(pc' = pc /\ files_to_process' = files_to_process)
          => (/\ processed_mtimes' = processed_mtimes
              /\ out' = out
              /\ \A q \in Keys(file_timestamps) : Has(file_timestamps', q)
              /\ file_timestamps' # file_timestamps
                   => (/\ hpc = "write"
                       /\ Keys(file_timestamps') = Keys(file_timestamps) \cup {hpath}
                       /\ TsOf(file_timestamps', hpath) = now
                       /\ \A q \in Keys(file_timestamps) \ {hpath} :
                            TsOf(file_timestamps', q) = TsOf(file_timestamps, q)))]_vars
    /\ [][processed_mtimes' # processed_mtimes => pc = "commit"]_vars
    /\ [][out' # out => pc = "convert"]_vars
    /\ [][(\E q \in Keys(file_timestamps) : ~Has(file_timestamps', q))
          => pc \in {"stat", "pop"}]_vars
    /\ [][files_to_process' # files_to_process => pc' # pc \/ pc = "stat"]_vars

\* An event has refreshed one tracked path while another is tracked too.
C15_Witness ==
    /\ hpc = "idle"
    /\ Len(file_timestamps) = 2
    /\ file_timestamps[1].ts = now
    /\ file_timestamps[2].ts < now

\* C16 (irrelevant events are ignored): the handler goes past its filter only
\* for an event that is no directory event and whose path ends in .dat, it
\* reaches its store only after _should_track compared an mtime above the
\* marker, and every step outside the poll loop other than that store leaves
\* file_timestamps and processed_mtimes exactly as they are.
C16_IrrelevantIgnored ==
    /\ [](hpc # "idle" => (~hev.is_directory /\ hev.src_path[2] = "dat"))
    /\ [][(hpc' = "write" /\ hpc # "write")
          => (hpc = "compare" /\ hmtime > GetOrZero(processed_mtimes, hpath))]_vars
    /\ [][(pc' = pc /\ files_to_process' = files_to_process /\ hpc # "write")
          => (file_timestamps' = file_timestamps
                /\ processed_mtimes' = processed_mtimes)]_vars

\* _should_track is about to return False for an event on an Active path.
C16_Witness ==
    /\ hpc = "compare"
    /\ Has(file_timestamps, hpath)
    /\ TsOf(file_timestamps, hpath) < now
    /\ hmtime <= GetOrZero(processed_mtimes, hpath)
    /\ pc = "sleep"

\* Position of path p in a sequence of paths that holds it.
PosIn(seq, p) == CHOOSE i \in 1..Len(seq) : seq[i] = p

\* The paths of seq come in the order they have in the dict d.
InOrderOf(seq, d) ==
    \A i, j \in 1..Len(seq) :
        i < j => /\ Has(d, seq[i]) /\ Has(d, seq[j])
                 /\ PosIn(KeySeq(d), seq[i]) < PosIn(KeySeq(d), seq[j])

\* C17 (processing order): the paths a scan finds ready are queued in the
\* order of their file_timestamps entries and dispatched from the front of
\* that queue; a new entry goes behind all others, and a store on a path that
\* already has an entry leaves the order of the entries as it is.
C17_InsertionOrder ==
    /\ [][(pc = "sleep" /\ pc' # "sleep")
          => InOrderOf(files_to_process', file_timestamps)]_vars
    /\ [][pc # "sleep"
          => (files_to_process' = files_to_process
                \/ files_to_process' = Tail(files_to_process))]_vars
    /\ [][(hpc = "write" /\ hpc' = "idle")
          => IF Has(file_timestamps, hpath)
               THEN KeySeq(file_timestamps') = KeySeq(file_timestamps)
               ELSE KeySeq(file_timestamps') = Append(KeySeq(file_timestamps), hpath)]_vars

\* Two paths are dispatched in one cycle, first-inserted first, although the
\* first one's timestamp was reset after the second one was inserted.
C17_Witness ==
    /\ pc = "stat"
    /\ Len(files_to_process) = 2
    /\ files_to_process = KeySeq(file_timestamps)
    /\ file_timestamps[1].ts > file_timestamps[2].ts

\* The one watched path was dropped by the dispatcher (its last log line is
\* the "File disappeared" warning) and has not been tracked since.
Dropped(p) == log = "disappeared" /\ ~Has(file_timestamps, p)

\* C18 as stated (reconsideration after a drop, whatever the history): an
\* event delivered for a dropped path whose file is on disk again passes
\* _should_track, whatever marker the path has and whatever mtime the file
\* carries.
C18_RetrackedRegardless ==
    [][(hpc = "idle" /\ hpc' = "compare" /\ Dropped(hev'.src_path))
       => hmtime' > GetOrZero(processed_mtimes, hev'.src_path)]_vars

\* C18 amended (reconsideration after a drop): the drop removes the entry and
\* leaves the marker as it was; an event delivered for the dropped path passes
\* _should_track exactly when the mtime read is strictly greater than that
\* marker (time zero if the path was never processed), and the store that
\* follows makes the path tracked again with the current time.
C18_RetrackedIfNewer ==
    /\ [][(pc = "stat" /\ log' = "disappeared")
          => (processed_mtimes' = processed_mtimes
                /\ ~Has(file_timestamps', file_path))]_vars
    /\ [][(hpc = "compare" /\ hpc' # "compare" /\ Dropped(hpath))
          => ((hpc' = "write") <=> (hmtime > GetOrZero(processed_mtimes, hpath)))]_vars
    /\ [][(hpc = "write" /\ hpc' = "idle" /\ Dropped(hpath))
          => (Has(file_timestamps', hpath) /\ TsOf(file_timestamps', hpath) = now)]_vars

\* A path with a marker was dropped, its file is back with a newer mtime and
\* the handler is about to track it again.
C18_Witness ==
    /\ hpc = "write"
    /\ Dropped(hpath)
    /\ hpath \in DOMAIN processed_mtimes
    /\ hpath \in DOMAIN disk
    /\ disk[hpath] > processed_mtimes[hpath]

\* C19 as stated (the marker is monotone): no step removes a key of
\* processed_mtimes, and every store on a path that has a marker stores a
\* value strictly greater than the one it has.
C19_MarkerMonotone ==
    /\ [][DOMAIN processed_mtimes \subseteq DOMAIN processed_mtimes']_vars
    /\ [][(pc = "commit" /\ pc' # "commit" /\ file_path \in DOMAIN processed_mtimes)
          => processed_mtimes'[file_path] > processed_mtimes[file_path]]_vars

\* C19 amended (the marker persists and follows the dispatcher's read): no
\* step removes a key of processed_mtimes; only the dispatcher's store changes
\* the dict, and it sets the marker of the path it is at to the mtime it read
\* before the conversion, whatever marker the path had, and leaves the
\* markers of all other paths alone.
C19_MarkerKeptAndSetToRead ==
    /\ [][DOMAIN processed_mtimes \subseteq DOMAIN processed_mtimes']_vars
    /\ [][processed_mtimes' # processed_mtimes => pc = "commit"]_vars
    /\ [][(pc = "commit" /\ pc' # "commit")
          => (/\ file_path \in DOMAIN processed_mtimes'
              /\ processed_mtimes'[file_path] = latest_mtime
              /\ \A q \in DOMAIN processed_mtimes \ {file_path} :
                   processed_mtimes'[q] = processed_mtimes[q])]_vars

\* The dispatcher has just stored a marker for a path of which a newer
\* revision was converted before: the marker has moved backwards.
C19_Witness ==
    /\ pc = "pop"
    /\ log = "appended"
    /\ processed_mtimes[file_path] = latest_mtime
    /\ \E d \in DOMAIN out : \E i, j \in 1..Len(out[d]) :
         /\ i < j
         /\ out[d][i].path = file_path /\ out[d][i].rev > latest_mtime
         /\ out[d][j].path = file_path /\ out[d][j].rev = latest_mtime

\* The path has an entry that a scan at the current time finds ready.
Stale(p) ==
    Has(file_timestamps, p) /\ Inactive(now, TsOf(file_timestamps, p))

\* C20 (eventual dispatch): while the poll loop keeps running, an entry that
\* is old enough to be dispatched does not stay so forever: the path leaves
\* file_timestamps, or an event that passes the filter makes its entry fresh.
C20_EventualDispatch ==
    \A p \in OneFile : Stale(p) ~> ~Stale(p)

\* The same, except while the dispatcher's stat of the path keeps failing
\* with an error other than FileNotFoundError.
EventualDispatchOrStatError ==
    \A p \in OneFile : Stale(p) ~> (~Stale(p) \/ log = "error")

====
